---- MODULE Spec2Model ----
(***************************************************************************)
(* Model of gist.check: the ContextVar check_ctx, the report scope guard,  *)
(* the check(policy) method decorator and ReportBase.apply_rules/validate. *)
(*                                                                         *)
(* A list object created by report.__init__ is identified with the guard   *)
(* that created it: coll[g] is the content of the list made by guard g,    *)
(* and a reference to that list is the number g.  The value None is 0.     *)
(***************************************************************************)
EXTENDS Naturals, Sequences, FiniteSets, TLC

\* ---------------------------------------------------------------- bounds
MaxGuards == 2      \* report() objects constructed in one run
MaxChecks == 2      \* _check_ methods of one class
MaxLen    == 3      \* longest collection
MaxCtx    == 2      \* execution contexts
MaxName   == 2      \* characters of a policy name given to check()

\* --------------------------------------------------------- program values
None == 0           \* check_ctx default: no active scope

Guards   == 1..MaxGuards
Contexts == 1..MaxCtx
Policies == 1..MaxChecks          \* policy i is the string "policy_i"
Bodies   == {"F", "T", "R"}       \* return False, return True, raise

E_NONE  == "none"
E_CHECK == "ValueError"           \* raised by a check body
E_OTHER == "KeyError"             \* any other error raised in a scope body
E_AGG   == "RuntimeWarning"       \* raised by report.__exit__
E_USED  == "RuntimeError"         \* ContextVar.reset: token already used
E_CTX   == "ValueError(Context)"  \* ContextVar.reset: token of another Context
E_ATTR  == "AttributeError"       \* None has no attribute append
E_CONFIG == "ValueError(policy)"  \* check(): "Check policy not set!"

\* An exception in flight: its type, args[1] of a RuntimeWarning (a list),
\* the type of the exception it was raised while handling (__context__) and
\* the policy of the check whose body raised that one (0 when no check did).
NoExc == [kind |-> E_NONE, pay |-> None, cause |-> E_NONE, by |-> 0]
Exc(k, pay, cause, by) == [kind |-> k, pay |-> pay, cause |-> cause, by |-> by]

\* The arguments the with statement passes to __exit__(self, *exc).
ExcInfo(e) == IF e.kind = E_NONE THEN <<"None", "None", "None">>
              ELSE <<e.kind, "value", "traceback">>

VARIABLES
  live,     \* the execution contexts that exist
  amb,      \* amb[c]: value of check_ctx in context c (None or a list)
  coll,     \* coll[g]: content of the list created by guard g
  scope,    \* scope[g]: the report object g
  frames,   \* frames[c]: guards of the with blocks open in c, innermost last
  pend,     \* pend[c]: guard whose with statement has constructed, not entered
  exc,      \* exc[c]: exception propagating in c
  run,      \* run[c]: the call of a check, apply_rules or validate in c
  hist      \* hist[g]: policies of the checks invoked in the body of scope g

vars == <<live, amb, coll, scope, frames, pend, exc, run, hist>>

\* ------------------------------------------------------------ class model
\* A class deriving ReportBase with methods _check_number1.._check_numberN;
\* o[i] is the body of _check_number<i>, decorated @check("policy_<i>").
Objects == UNION {[1..n -> Bodies] : n \in 0..MaxChecks}

\* The example class Evaluation: False, True, raise, True.
Evaluation == <<"F", "T", "R", "T">>

\* The classes whose objects the callers validate.
Classes == Objects \cup {Evaluation}

\* Attribute names, as <<stem, number>>; dir() lists them in ascending order.
StemRank(s) == CASE s = "_check_number" -> 1
                 [] s = "apply_rules"   -> 2
                 [] OTHER               -> 3

NameLess_desc(a, b) == \/ StemRank(a[1]) > StemRank(b[1])
                       \/ StemRank(a[1]) = StemRank(b[1]) /\ a[2] > b[2]
NameLess(a, b) == \/ StemRank(a[1]) < StemRank(b[1])
                  \/ StemRank(a[1]) = StemRank(b[1]) /\ a[2] < b[2]

Attrs(o) == {<<"_check_number", i>> : i \in 1..Len(o)}
              \cup {<<"apply_rules", 0>>, <<"validate", 0>>}

Names == UNION {Attrs(o) : o \in Classes}

Sorted[S \in SUBSET Names] ==
  IF S = {} THEN <<>>
  ELSE LET m == CHOOSE x \in S : \A y \in S \ {x} : NameLess(x, y)
       IN  <<m>> \o Sorted[S \ {m}]

dir(o) == Sorted[Attrs(o)]

startswith_check(name) == name[1] = "_check_number"

Filter(s) == SelectSeq(s, startswith_check)

\* filter(lambda name: name.startswith("_check_"), dir(self))
Discover(o) == Filter(dir(o))

PolicyOf(name) == name[2]
BodyOf(o, name) == o[name[2]]

\* ------------------------------------------------------------ the state
NoScope == [st |-> "none", tctx |-> 0, told |-> None, tused |-> FALSE,
            bound |-> None]

\* A call in progress: the method called, the class of the object, the next
\* method of the comprehension, the results and the methods called so far,
\* the value of any(...) and the value handed to the caller.
Idle == [st |-> "idle", via |-> "-", obj |-> <<>>, i |-> 0,
         res |-> <<>>, calls |-> <<>>, any |-> "-", value |-> "-"]

Init == /\ live = {1}
        /\ amb = [c \in Contexts |-> None]
        /\ coll = [g \in Guards |-> <<>>]
        /\ scope = [g \in Guards |-> NoScope]
        /\ frames = [c \in Contexts |-> <<>>]
        /\ pend = [c \in Contexts |-> 0]
        /\ exc = [c \in Contexts |-> NoExc]
        /\ run = [c \in Contexts |-> Idle]
        /\ hist = [g \in Guards |-> <<>>]

\* Context c is between statements of caller code: nothing is propagating,
\* no call is running and no with statement is half entered.
Ready(c) == /\ c \in live
            /\ exc[c].kind = E_NONE
            /\ run[c].st = "idle"
            /\ pend[c] = 0

Top(c) == IF frames[c] = <<>> THEN 0 ELSE frames[c][Len(frames[c])]

Fresh == {g \in Guards : scope[g].st = "none"}
NewGuard == CHOOSE g \in Fresh : \A h \in Fresh : g <= h

\* ------------------------------------------------------- report.__init__
\* self._token = check_ctx.set(list()): the token keeps the value the
\* variable had in this context, and the new list becomes its value.
report_init_shared(c, g) ==
  /\ scope' = [scope EXCEPT ![g] = [NoScope EXCEPT !.st = "made", !.tctx = c,
                                               !.told = amb[c]]]
  /\ coll' = [coll EXCEPT ![g] = <<>>]
  /\ amb' = [amb EXCEPT ![c] = IF amb[c] # None THEN amb[c] ELSE g]

report_init(c, g) ==
  /\ scope' = [scope EXCEPT ![g] = [NoScope EXCEPT !.st = "made", !.tctx = c,
                                               !.told = amb[c]]]
  /\ coll' = [coll EXCEPT ![g] = <<>>]
  /\ amb' = [amb EXCEPT ![c] = g]

\* `with report() as b:` evaluates report(); __enter__ follows at once.
Construct(c) ==
  /\ Ready(c)
  /\ Fresh # {}
  /\ report_init(c, NewGuard)
  /\ pend' = [pend EXCEPT ![c] = NewGuard]
  /\ UNCHANGED <<live, frames, exc, run, hist>>

\* ------------------------------------------------------ report.__enter__
\* return check_ctx.get(): the value bound by `as`.
report_enter(c) == amb[c]

EnterGuard(c, g) ==
  /\ scope' = [scope EXCEPT ![g].st = "entered", ![g].bound = report_enter(c)]
  /\ frames' = [frames EXCEPT ![c] = Append(@, g)]
  /\ hist' = [hist EXCEPT ![g] = <<>>]

Enter(c) ==
  /\ c \in live
  /\ pend[c] # 0
  /\ EnterGuard(c, pend[c])
  /\ pend' = [pend EXCEPT ![c] = 0]
  /\ UNCHANGED <<live, amb, coll, exc, run>>

\* ----------------------------------------------------------- check(policy)
\* The values given as policy: None, or a string of up to MaxName characters.
Chars == {"p", " "}
NoneValue == [none |-> TRUE, str |-> <<>>]
Str(q) == [none |-> FALSE, str |-> q]
PolicyValues == {NoneValue} \cup {Str(q) : q \in UNION {[1..n -> Chars] : n \in 0..MaxName}}

\* `not policy`: None and the empty string are false.
not_policy_none(v) == v.none
not_policy(v) == v.none \/ Len(v.str) = 0

\* A class body applies @check(v): the call raises, or returns the decorator
\* that then wraps the method.
Tag(c, v) ==
  /\ Ready(c)
  /\ exc' = IF not_policy(v) THEN [exc EXCEPT ![c] = Exc(E_CONFIG, None, E_NONE, 0)]
            ELSE exc
  /\ run' = IF not_policy(v) THEN run
            ELSE [run EXCEPT ![c] = [Idle EXCEPT !.st = "returned", !.via = "check()",
                                                 !.value = "decorator"]]
  /\ UNCHANGED <<live, amb, coll, scope, frames, pend, hist>>

\* ------------------------------------------------- check(policy): checker
\* type(checks) is list
is_list_always(checks) == TRUE
is_list(checks) == checks # None

\* checks.append(policy) comes before func(self) is called, so the list
\* holds the policy whatever the body b then does.
checker_append_late(lst, policy, b) == IF b = "R" THEN lst ELSE Append(lst, policy)
checker_append_front(lst, policy, b) == <<policy>> \o lst
checker_append(lst, policy, b) == Append(lst, policy)

\* return func(self, *args, **kwargs)
func_result(b) == IF b = "T" THEN "True" ELSE "False"
func_raises(b) == b = "R"

\* The bounded model has room for n more recorded names.
RECURSIVE Total(_)
Total(S) == IF S = {} THEN 0
            ELSE LET g == CHOOSE x \in S : TRUE
                 IN  Len(coll[g]) + Len(hist[g]) + Total(S \ {g})

Room(c, n) == (is_list(amb[c]) \/ Top(c) # 0) => Total(Guards) + 2 * n <= 2 * MaxLen

\* The methods a call of apply_rules on an object of class o gets to call.
RECURSIVE Reached(_)
Reached(o) == IF o = <<>> THEN 0
              ELSE IF Head(o) = "R" THEN 1
              ELSE 1 + Reached(Tail(o))

\* One call of a decorated method with policy p and body b in context c.
\* (None.append would raise before the body is called.)
checker_error_wrapped(c, p, b) == IF func_raises(b) THEN E_AGG ELSE E_NONE
checker_error(c, p, b) == IF is_list(amb[c]) /\ amb[c] = None THEN E_ATTR
                          ELSE IF func_raises(b) THEN E_CHECK
                          ELSE E_NONE

checker(c, p, b) ==
  /\ coll' = IF is_list(amb[c]) /\ amb[c] # None
             THEN [coll EXCEPT ![amb[c]] = checker_append(@, p, b)]
             ELSE coll
  /\ hist' = IF Top(c) # 0 THEN [hist EXCEPT ![Top(c)] = Append(@, p)]
             ELSE hist
  /\ exc' = IF checker_error(c, p, b) # E_NONE
            THEN [exc EXCEPT ![c] = Exc(checker_error(c, p, b), None, E_NONE, p)]
            ELSE exc

\* Caller code calls one check method, with policy p and body b, directly.
Invoke(c, p, b) ==
  /\ Ready(c)
  /\ Room(c, 1)
  /\ checker(c, p, b)
  /\ run' = [run EXCEPT ![c] =
               IF checker_error(c, p, b) # E_NONE THEN Idle
               ELSE [Idle EXCEPT !.st = "returned", !.via = "check",
                                 !.obj = <<b>>, !.value = func_result(b)]]
  /\ UNCHANGED <<live, amb, scope, frames, pend>>

\* --------------------------------------------------- ReportBase
\* any(list): the logical OR of the collected results.
any_(res) == IF \E i \in 1..Len(res) : res[i] = "True" THEN "True" ELSE "False"

\* Caller code calls validate() on an object of class o; validate calls
\* apply_rules.
Call(c, o) ==
  /\ Ready(c)
  /\ Room(c, Reached(o))
  /\ run' = [run EXCEPT ![c] = [Idle EXCEPT !.st = "running", !.obj = o,
                                            !.via = "validate", !.i = 1]]
  /\ UNCHANGED <<live, amb, coll, scope, frames, pend, exc, hist>>

\* The list [getattr(self, m)() for m in ...] is built in full before any()
\* sees it: the comprehension ends when every discovered method was called.
exhausted_lazy(r) == \/ r.i > Len(Discover(r.obj))
                     \/ \E j \in 1..Len(r.res) : r.res[j] = "True"
exhausted(r) == r.i > Len(Discover(r.obj))

\* The call record after method m with body b was called and ended with
\* err: an error is not caught, it ends the comprehension and the call.
comprehension_next_safe(r, m, b, err) ==
  [r EXCEPT !.i = @ + 1, !.res = Append(@, IF b = "T" THEN "True" ELSE "False"),
            !.calls = Append(@, m)]
comprehension_next(r, m, b, err) ==
  IF err # E_NONE THEN Idle
  ELSE [r EXCEPT !.i = @ + 1, !.res = Append(@, func_result(b)),
                 !.calls = Append(@, m)]

\* The list comprehension calls the next discovered method; a raising body
\* unwinds apply_rules (and validate) with the error.
Step(c) ==
  /\ c \in live
  /\ run[c].st = "running"
  /\ ~exhausted(run[c])
  /\ LET m == Discover(run[c].obj)[run[c].i]
         b == BodyOf(run[c].obj, m)
     IN  /\ checker(c, PolicyOf(m), b)
         /\ run' = [run EXCEPT ![c] =
                      comprehension_next(@, m, b, checker_error(c, PolicyOf(m), b))]
  /\ UNCHANGED <<live, amb, scope, frames, pend>>

\* The comprehension is exhausted: apply_rules returns any(...), and
\* validate returns None.
Finish(c) ==
  /\ c \in live
  /\ run[c].st = "running"
  /\ exhausted(run[c])
  /\ run' = [run EXCEPT ![c].st = "returned",
                        ![c].any = any_(run[c].res),
                        ![c].value = "None"]
  /\ UNCHANGED <<live, amb, coll, scope, frames, pend, exc, hist>>

\* The caller takes the value of the call.
Return(c) ==
  /\ c \in live
  /\ run[c].st = "returned"
  /\ run' = [run EXCEPT ![c] = Idle]
  /\ UNCHANGED <<live, amb, coll, scope, frames, pend, exc, hist>>

\* ------------------------------------------------------- report.__exit__
\* `if exc:` tests the tuple of arguments.
exit_raises_not(args) == Len(args) = 0
exit_raises(args) == Len(args) > 0

\* ContextVar.reset(token): a token is used once, in its own Context.
reset_error_used(c, s) == E_USED
reset_error(c, s) == IF s.tused THEN E_USED
                     ELSE IF s.tctx # c THEN E_CTX
                     ELSE E_NONE

\* The value check_ctx has in c after reset(token).
reset_value_none(c, s) == None
reset_value(c, s) == s.told

\* __exit__ of guard g called in context c with the arguments args, while e
\* propagates: the exception that leaves the with statement.
exit_outcome_passes(c, g, args, e) ==
  IF e.kind = E_AGG THEN e ELSE Exc(E_AGG, amb[c], e.kind, e.by)
exit_outcome(c, g, args, e) ==
  IF reset_error(c, scope[g]) # E_NONE
  THEN Exc(reset_error(c, scope[g]), None, e.kind, e.by)
  ELSE IF exit_raises(args) THEN Exc(E_AGG, amb[c], e.kind, e.by)
  ELSE e

report_exit(c, g, args, e) ==
  /\ amb' = IF reset_error(c, scope[g]) = E_NONE
            THEN [amb EXCEPT ![c] = reset_value(c, scope[g])]
            ELSE amb
  /\ scope' = [scope EXCEPT ![g].st = "exited",
                            ![g].tused = @ \/ reset_error(c, scope[g]) = E_NONE]
  /\ exc' = [exc EXCEPT ![c] = exit_outcome(c, g, args, e)]

\* The innermost with block of c ends: its body completed, or an exception
\* is propagating out of it.
Exit(c) ==
  /\ c \in live
  /\ run[c].st = "idle"
  /\ pend[c] = 0
  /\ Top(c) # 0
  /\ report_exit(c, Top(c), ExcInfo(exc[c]), exc[c])
  /\ frames' = [frames EXCEPT ![c] = SubSeq(@, 1, Len(@) - 1)]
  /\ UNCHANGED <<live, coll, pend, run, hist>>

\* ----------------------------------------------------------- caller code
\* The body of the innermost with block raises an error of its own.
Raise(c) ==
  /\ Ready(c)
  /\ Top(c) # 0
  /\ exc' = [exc EXCEPT ![c] = Exc(E_OTHER, None, E_NONE, 0)]
  /\ UNCHANGED <<live, amb, coll, scope, frames, pend, run, hist>>

\* A try/except of the caller handles the propagating exception.
Catch(c) ==
  /\ c \in live
  /\ exc[c].kind # E_NONE
  /\ exc' = [exc EXCEPT ![c] = NoExc]
  /\ UNCHANGED <<live, amb, coll, scope, frames, pend, run, hist>>

\* A guard is constructed by a statement of its own: g = report().
Make(c) ==
  /\ Ready(c)
  /\ Fresh # {}
  /\ report_init(c, NewGuard)
  /\ UNCHANGED <<live, frames, pend, exc, run, hist>>

\* `with g:` on a guard constructed earlier in this context.
EnterMade(c, g) ==
  /\ Ready(c)
  /\ scope[g].st = "made"
  /\ scope[g].tctx = c
  /\ EnterGuard(c, g)
  /\ UNCHANGED <<live, amb, coll, pend, exc, run>>

\* `with g:` again on a guard that was exited, and every later call of a
\* function decorated @report(): _recreate_cm returns the guard itself.
ReEnter(c, g) ==
  /\ Ready(c)
  /\ scope[g].st = "exited"
  /\ scope[g].tctx = c
  /\ EnterGuard(c, g)
  /\ UNCHANGED <<live, amb, coll, pend, exc, run>>

\* ---------------------------------------------------- execution contexts
NewContext == CHOOSE d \in Contexts \ live : \A e \in Contexts \ live : d <= e

\* copy_context().run(...), asyncio.create_task(...): the new context starts
\* with the caller's value of check_ctx, the same list object.
Fork(c) ==
  /\ c \in live
  /\ live # Contexts
  /\ live' = live \cup {NewContext}
  /\ amb' = [amb EXCEPT ![NewContext] = amb[c]]
  /\ UNCHANGED <<coll, scope, frames, pend, exc, run, hist>>

\* threading.Thread(...).start(): the new context is empty, so check_ctx
\* has its default there.
Spawn ==
  /\ live # Contexts
  /\ live' = live \cup {NewContext}
  /\ amb' = [amb EXCEPT ![NewContext] = None]
  /\ UNCHANGED <<coll, scope, frames, pend, exc, run, hist>>

\* ------------------------------------------------------- specifications
\* One execution context using `with report():` blocks.
Next == \E c \in Contexts :
          \/ Construct(c)
          \/ Enter(c)
          \/ \E p \in Policies, b \in Bodies : Invoke(c, p, b)
          \/ \E o \in Classes : Call(c, o)
          \/ Step(c)
          \/ Finish(c)
          \/ Return(c)
          \/ Exit(c)
          \/ Raise(c)
          \/ Catch(c)

Spec == Init /\ [][Next]_vars

\* With blocks whose bodies validate objects and handle errors.
NextLive == \E c \in Contexts :
              \/ Construct(c)
              \/ Enter(c)
              \/ \E o \in Classes : Call(c, o)
              \/ Step(c)
              \/ Finish(c)
              \/ Return(c)
              \/ Exit(c)
              \/ Catch(c)

\* The calls are synchronous: a running apply_rules goes on to its end, its
\* value is taken, a constructed guard of a with statement is entered, and
\* the body of a with block ends, so that its __exit__ is called.
Fairness == \A c \in Contexts :
              /\ WF_vars(Step(c))
              /\ WF_vars(Finish(c))
              /\ WF_vars(Return(c))
              /\ WF_vars(Enter(c))
              /\ SF_vars(Exit(c))

SpecLive == Init /\ [][NextLive]_vars /\ Fairness

\* Guards that are also constructed ahead of the with statement that
\* enters them.
NextGuards == \/ Next
              \/ \E c \in Contexts : Make(c)
              \/ \E c \in Contexts, g \in Guards : EnterMade(c, g)

SpecGuards == Init /\ [][NextGuards]_vars

\* Functions decorated @report(): the guard is constructed at decoration
\* and entered and exited by every call of the function.
NextDecorator == \/ \E c \in Contexts :
                      \/ Make(c)
                      \/ \E p \in Policies, b \in Bodies : Invoke(c, p, b)
                      \/ Return(c)
                      \/ Exit(c)
                      \/ Catch(c)
                 \/ \E c \in Contexts, g \in Guards :
                      \/ EnterMade(c, g)
                      \/ ReEnter(c, g)

SpecDecorator == Init /\ [][NextDecorator]_vars

\* Classes are also defined, their methods tagged, while the program runs.
NextTags == \/ Next
            \/ \E c \in Contexts, v \in PolicyValues : Tag(c, v)

SpecTags == Init /\ [][NextTags]_vars

\* Several execution contexts, each opening scopes and calling checks.
NextContexts == \/ \E c \in Contexts :
                     \/ Construct(c)
                     \/ Enter(c)
                     \/ \E p \in Policies, b \in Bodies : Invoke(c, p, b)
                     \/ Return(c)
                     \/ Exit(c)
                     \/ Catch(c)
                     \/ Fork(c)
                \/ Spawn

SpecContexts == Init /\ [][NextContexts]_vars

\* ----------------------------------------------------------------- claims
\* The step ends (starts) a with block of context c.
ExitStep(c)  == Len(frames'[c]) < Len(frames[c])
EnterStep(c) == Len(frames'[c]) > Len(frames[c])
TopOf(fr) == IF fr = <<>> THEN 0 ELSE fr[Len(fr)]
Last(q) == q[Len(q)]

\* C1: when the body of a report scope completes without raising, the exit
\* raises nothing (control returns normally) and the bound collection keeps
\* its content.
C1_CleanExit ==
  [][\A c \in Contexts :
       (ExitStep(c) /\ exc[c].kind = E_NONE)
         => (exc'[c].kind = E_NONE /\ coll' = coll)]_vars

\* C2: when the body of a report scope raises (a check failure or any other
\* error), what leaves the scope is one RuntimeWarning, raised while that
\* error was being handled, and not the error itself.
C2_FailedExit ==
  [][\A c \in Contexts :
       (ExitStep(c) /\ exc[c].kind # E_NONE)
         => (exc'[c].kind = E_AGG /\ exc'[c].cause = exc[c].kind)]_vars

\* A RuntimeWarning raised for a body that raised some other error.
C2_Witness ==
  \E c \in Contexts : exc[c].kind = E_AGG /\ exc[c].cause = E_OTHER

\* C3: when a check raises in a report scope, the payload of the
\* RuntimeWarning raised at exit is the sequence of the policies of the checks
\* invoked in the scope up to and including the failing one, which is last.
C3_Payload ==
  [][\A c \in Contexts :
       (ExitStep(c) /\ exc[c].kind = E_CHECK)
         => /\ exc'[c].kind = E_AGG
            /\ is_list(exc'[c].pay)
            /\ coll'[exc'[c].pay] = hist[Top(c)]
            /\ coll'[exc'[c].pay] # <<>>
            /\ Last(coll'[exc'[c].pay]) = exc[c].by]_vars

\* The example: policy_1..policy_4 returning False, True, raise, True.
C3_Witness ==
  \E c \in Contexts :
    /\ exc[c].kind = E_AGG
    /\ exc[c].cause = E_CHECK
    /\ exc[c].by = 3
    /\ is_list(exc[c].pay)
    /\ coll[exc[c].pay] = <<1, 2, 3>>

\* C4: in every open report scope the bound collection is the sequence of
\* the policies of the checks invoked in the scope so far, in order and with
\* repetitions; the policy of a check whose body raised is there, last.
C4_Collection ==
  \A c \in Contexts : \A i \in 1..Len(frames[c]) :
    LET g == frames[c][i]
    IN  /\ is_list(scope[g].bound)
        /\ coll[scope[g].bound] = hist[g]
        /\ (i = Len(frames[c]) /\ exc[c].kind = E_CHECK)
             => (hist[g] # <<>> /\ Last(coll[scope[g].bound]) = exc[c].by)

\* A scope where policy_2, policy_1 and policy_1 again were invoked and the
\* body of the last call raised.
C4_Witness ==
  \E c \in Contexts :
    /\ Top(c) # 0
    /\ exc[c].kind = E_CHECK
    /\ exc[c].by = 1
    /\ coll[scope[Top(c)].bound] = <<2, 1, 1>>

\* C5: every exit of a report scope, clean or failed, leaves check_ctx at
\* the value captured for the scope: the collection of the enclosing scope,
\* or None when there is none.
C5_Restore ==
  [][\A c \in Contexts :
       ExitStep(c)
         => /\ amb'[c] = scope[Top(c)].told
            /\ amb'[c] = IF frames'[c] = <<>> THEN None
                         ELSE scope[TopOf(frames'[c])].bound]_vars

\* An inner scope has failed and the outer collection is ambient again.
C5_Witness ==
  \E c \in Contexts, g \in Guards :
    /\ Len(frames[c]) = 1
    /\ scope[g].st = "exited"
    /\ scope[g].told = frames[c][1]
    /\ amb[c] = scope[frames[c][1]].bound
    /\ exc[c].kind = E_AGG
    /\ exc[c].cause = E_CHECK

\* C6: while a scope is being opened or is open inside another one no step
\* changes the outer collection (the inner checks are recorded in the inner
\* collection only), the collection of the innermost scope is the ambient one,
\* and the exit of the inner scope, clean or failed, makes the outer
\* collection the ambient one again.
C6_Nesting ==
  [][\A c \in Contexts :
       /\ \A i \in 1..Len(frames[c]) :
            (i < Len(frames[c]) \/ pend[c] # 0)
              => coll'[scope[frames[c][i]].bound] = coll[scope[frames[c][i]].bound]
       /\ (pend'[c] = 0 /\ frames'[c] # <<>>)
            => amb'[c] = scope'[TopOf(frames'[c])].bound
       /\ (ExitStep(c) /\ frames'[c] # <<>>)
            => /\ amb'[c] # Top(c)
               /\ coll'[amb'[c]] = coll[amb'[c]]]_vars

\* After an inner scope that recorded policy_2 has exited, the outer scope
\* holds policy_1 from before it and policy_1 again from after it.
C6_Witness ==
  \E c \in Contexts, g \in Guards :
    /\ Len(frames[c]) = 1
    /\ scope[g].st = "exited"
    /\ scope[g].told = frames[c][1]
    /\ coll[g] = <<2>>
    /\ coll[frames[c][1]] = <<1, 1>>

\* C7: entering a scope installs a new empty list and returns it; a guard
\* that is constructed and not yet entered has installed nothing.
C7_InstallOnEntry ==
  [][/\ \A c \in Contexts :
          EnterStep(c)
            => LET g == TopOf(frames'[c])
               IN  /\ is_list(scope'[g].bound)
                   /\ coll'[scope'[g].bound] = <<>>
                   /\ amb'[c] = scope'[g].bound
     /\ \A g \in Guards :
          (scope'[g].st = "made" /\ \A c \in Contexts : pend'[c] # g)
            => \A c \in Contexts : amb'[c] # g]_vars

\* C8: a check called while check_ctx is None runs its body and gives the
\* caller the body's result or error; nothing is recorded and check_ctx
\* stays None.
C8_NoScope ==
  [][\A c \in Contexts, p \in Policies, b \in Bodies :
       (Invoke(c, p, b) /\ amb[c] = None)
         => /\ amb'[c] = None
            /\ coll' = coll
            /\ func_raises(b) => exc'[c].kind = E_CHECK
            /\ ~func_raises(b) => /\ exc'[c].kind = E_NONE
                                  /\ run'[c].st = "returned"
                                  /\ run'[c].value = func_result(b)]_vars

\* A check has returned True to a caller that has no scope open.
C8_Witness ==
  \E c \in Contexts :
    /\ amb[c] = None
    /\ frames[c] = <<>>
    /\ run[c].st = "returned"
    /\ run[c].via = "check"
    /\ run[c].value = "True"
    /\ \A g \in Guards : coll[g] = <<>>

\* C9: a check invoked in one execution context never appends to the
\* collection of a scope that is open in another execution context.
C9_Isolation ==
  [][\A c \in Contexts :
       (\E p \in Policies, b \in Bodies : Invoke(c, p, b))
         => \A d \in Contexts \ {c} : \A i \in 1..Len(frames[d]) :
              LET l == scope[frames[d][i]].bound
              IN  is_list(l) => coll'[l] = coll[l]]_vars

\* C10: a call of apply_rules that returns has called every discovered check
\* method once, in order, whatever the results were, and its value is the OR
\* of their results (False when there is none).
C10_ApplyRules ==
  \A c \in Contexts :
    (run[c].st = "returned" /\ run[c].via = "validate")
      => /\ run[c].calls = Discover(run[c].obj)
         /\ Len(run[c].res) = Len(run[c].obj)
         /\ \A i \in 1..Len(run[c].obj) : run[c].res[i] = func_result(run[c].obj[i])
         /\ run[c].any = IF \E i \in 1..Len(run[c].obj) : run[c].obj[i] = "T"
                         THEN "True" ELSE "False"

\* apply_rules returned True after it called a check that returned True and
\* then one that returned False.
C10_Witness ==
  \E c \in Contexts :
    /\ run[c].st = "returned"
    /\ run[c].obj = <<"T", "F">>
    /\ Len(run[c].calls) = 2
    /\ run[c].any = "True"

\* C11: when a check raises during apply_rules the error leaves the call at
\* once: the call is over, only the failing check was recorded by that step,
\* and while the error propagates no check is invoked or recorded.
C11_FailFast ==
  [][\A c \in Contexts :
       /\ (Step(c) /\ func_raises(BodyOf(run[c].obj, Discover(run[c].obj)[run[c].i])))
            => LET p == PolicyOf(Discover(run[c].obj)[run[c].i])
               IN  /\ run'[c].st = "idle"
                   /\ exc'[c].kind = E_CHECK
                   /\ exc'[c].by = p
                   /\ is_list(amb[c]) => coll'[amb[c]] = Append(coll[amb[c]], p)
                   /\ \A g \in Guards : g # amb[c] => coll'[g] = coll[g]
       /\ exc[c].kind # E_NONE => (coll' = coll /\ hist' = hist /\ run'[c].st = "idle")]_vars

\* Evaluation was validated in a scope: policy_3 raised, policy_4 was never
\* invoked or recorded.
C11_Witness ==
  \E c \in Contexts :
    /\ Top(c) # 0
    /\ run[c].st = "idle"
    /\ exc[c].kind = E_CHECK
    /\ exc[c].by = 3
    /\ coll[scope[Top(c)].bound] = <<1, 2, 3>>

\* C12: check(v) returns a decorator for every non-empty string v and raises
\* ValueError for the empty string and for None; it raises in the call
\* itself, so that no decorator exists and nothing is wrapped or recorded.
C12_PolicyTag ==
  [][\A c \in Contexts, v \in PolicyValues :
       Tag(c, v)
         => /\ (~v.none /\ Len(v.str) > 0)
                 => /\ exc'[c].kind = E_NONE
                    /\ run'[c].st = "returned"
                    /\ run'[c].value = "decorator"
            /\ (v.none \/ v.str = <<>>)
                 => /\ exc'[c].kind = E_CONFIG
                    /\ run'[c].st = "idle"
                    /\ coll' = coll]_vars

\* check("") has raised ValueError.
C12_Witness ==
  \E c \in Contexts :
    /\ exc[c].kind = E_CONFIG
    /\ run[c].st = "idle"

\* C13: when the RuntimeWarning of an inner scope is not caught, it ends the
\* body of the outer scope like any error: the outer exit raises a
\* RuntimeWarning of its own, while handling the inner one, whose payload is
\* the outer collection, holding what was recorded while the outer scope was
\* the innermost one, and is not the payload of the inner failure.
C13_InnerFailure ==
  [][\A c \in Contexts :
       (ExitStep(c) /\ exc[c].kind = E_AGG)
         => /\ exc'[c].kind = E_AGG
            /\ exc'[c].cause = E_AGG
            /\ exc'[c].pay = scope[Top(c)].bound
            /\ exc'[c].pay # exc[c].pay
            /\ coll'[exc'[c].pay] = hist[Top(c)]]_vars

\* The outer scope recorded policy_1, the inner scope policy_2, and both
\* have failed: the failure that left the outer scope carries policy_1 only.
C13_Witness ==
  \E c \in Contexts :
    /\ frames[c] = <<>>
    /\ exc[c].kind = E_AGG
    /\ exc[c].cause = E_AGG
    /\ coll[exc[c].pay] = <<1>>
    /\ \E g \in Guards : scope[g].st = "exited" /\ scope[g].bound # exc[c].pay
                         /\ coll[scope[g].bound] = <<2>>

\* C14: the error of a check body leaves checker, apply_rules and validate
\* as it was raised: it is the ValueError of the first discovered check that
\* raises, with no payload and no cause; with no report scope it stays that
\* error until the caller handles it, and no RuntimeWarning is raised.
C14_Unchanged ==
  [][\A c \in Contexts :
       /\ (Step(c) /\ func_raises(BodyOf(run[c].obj, Discover(run[c].obj)[run[c].i])))
            => /\ exc'[c] = Exc(E_CHECK, None, E_NONE,
                                PolicyOf(Discover(run[c].obj)[run[c].i]))
               /\ \A j \in 1..(run[c].i - 1) :
                    ~func_raises(BodyOf(run[c].obj, Discover(run[c].obj)[j]))
       /\ (frames[c] = <<>> /\ exc[c].kind = E_CHECK)
            => (exc'[c] = exc[c] \/ exc'[c] = NoExc)
       /\ (frames[c] = <<>> /\ frames'[c] = <<>>) => exc'[c].kind # E_AGG]_vars

\* validate() on the example object, with no report scope ever opened, has
\* raised the ValueError of policy_3.
C14_Witness ==
  \E c \in Contexts :
    /\ \A g \in Guards : scope[g].st = "none"
    /\ run[c].st = "idle"
    /\ exc[c] = Exc(E_CHECK, None, E_NONE, 3)

\* C15: every scope that was entered is exited in the end; the exit puts
\* back the ambient value the scope found, and the exit of a scope whose
\* body raised raises the RuntimeWarning.
C15_Completes ==
  /\ \A g \in Guards : (scope[g].st = "entered") ~> (scope[g].st = "exited")
  /\ [][\A c \in Contexts :
          ExitStep(c)
            => /\ scope'[Top(c)].st = "exited"
               /\ amb'[c] = scope[Top(c)].told
               /\ exc[c].kind # E_NONE => exc'[c].kind = E_AGG]_vars

\* Two nested scopes have both been exited, the inner one after a check
\* raised in it, and the ambient value is None again.
C15_Witness ==
  \E c \in Contexts :
    /\ \A g \in Guards : scope[g].st = "exited"
    /\ frames[c] = <<>>
    /\ amb[c] = None
    /\ exc[c].kind = E_AGG
    /\ exc[c].by # 0

\* C16: once every guard that was constructed has been exited, whatever the
\* order of the exits, check_ctx is None again as before the first guard.
C16_AllExited ==
  \A c \in Contexts :
    (/\ \E g \in Guards : scope[g].st = "exited"
     /\ \A g \in Guards : scope[g].st \in {"none", "exited"})
      => amb[c] = None

\* C17: the payload of the RuntimeWarning a scope raises at exit is the list
\* the scope returned as its bound value at entry.
C17_BoundPayload ==
  [][\A c \in Contexts :
       (ExitStep(c) /\ exc'[c].kind = E_AGG)
         => exc'[c].pay = scope[Top(c)].bound]_vars

\* C18: every call of a function decorated @report(), the first and the later
\* ones, is bound to an empty list, and its exit raises no error of the
\* token and leaves the list holding what the call recorded.
C18_DecoratedCall ==
  [][\A c \in Contexts :
       /\ EnterStep(c)
            => /\ is_list(scope'[TopOf(frames'[c])].bound)
               /\ coll'[scope'[TopOf(frames'[c])].bound] = <<>>
       /\ ExitStep(c)
            => /\ exc'[c].kind \notin {E_USED, E_CTX}
               /\ is_list(scope[Top(c)].bound)
               /\ coll'[scope[Top(c)].bound] = hist[Top(c)]]_vars

\* C19: apply_rules calls the methods _check_number1, _check_number2, ... of
\* the object in this order, the k-th call being _check_number<k> and
\* recording policy_<k>, and it returns after it has called each of them
\* once and nothing else: the calls depend on the class only.
C19_Discovery ==
  [][\A c \in Contexts :
       /\ Step(c)
            => LET k == Len(run[c].calls) + 1
               IN  /\ k <= Len(run[c].obj)
                   /\ run'[c].st = "running"
                        => run'[c].calls = Append(run[c].calls, <<"_check_number", k>>)
                   /\ is_list(amb[c]) => coll'[amb[c]] = Append(coll[amb[c]], k)
       /\ Finish(c)
            => run[c].calls = [k \in 1..Len(run[c].obj) |-> <<"_check_number", k>>]]_vars

\* validate() returned in a scope after it called _check_number1 and
\* _check_number2, and the scope holds policy_1, policy_2.
C19_Witness ==
  \E c \in Contexts :
    /\ run[c].st = "returned"
    /\ run[c].via = "validate"
    /\ run[c].calls = <<<<"_check_number", 1>>, <<"_check_number", 2>>>>
    /\ Top(c) # 0
    /\ coll[scope[Top(c)].bound] = <<1, 2>>
====
